---- MODULE Spec2Model ----
(***************************************************************************)
(* A model of the interactive shell of src/src/shell.rs: the key-event     *)
(* driven line editor (collect_input and its handlers), the history        *)
(* store (command_history), filename completion (handle_tab) and the       *)
(* pipeline executor (process_input / execute_command).                    *)
(*                                                                         *)
(* Command lines are TLA+ strings; a character is a string of length 1.    *)
(***************************************************************************)
EXTENDS Integers, Sequences, FiniteSets, TLC

VARIABLES
    command_history,   \* Shell.command_history : Vec<String>
    input,             \* Shell.input : String
    index,             \* the local `index` of collect_input
    raw,               \* terminal raw mode (enable_raw_mode / disable_raw_mode)
    pc,                \* position of the shell in init()
    cwd,               \* the process working directory, a sequence of names
    commands,          \* process_input: the segments not yet consumed
    previous_command,  \* process_input: Option<Child>, 0 is None
    procs,             \* the child processes spawned by the running pipeline
    result,            \* outcome of the last process_input
    last_key,          \* the key event handled last in this input cycle
    keys,              \* log of the character/backspace events of a cycle
    submitted          \* the last line Enter finalized with non-blank content

vars == <<command_history, input, index, raw, pc, cwd, commands,
          previous_command, procs, result, last_key, keys, submitted>>

-----------------------------------------------------------------------------
(* Bounds of the model. *)

\* longest line the user types (a completion may make the buffer longer)
MaxLen == 2
\* most entries the history store holds before the model stops growing it
MaxHist == 2
\* longest line typed when exercising completion
MaxTabLen == 5
\* most key events logged in a character/backspace-only cycle
MaxKeys == 5
\* most " | "-separated segments of a submitted line
MaxStages == 3
\* longest line typed when exercising recall over several input cycles
MaxHistLine == 1
\* most entries the history store holds when exercising recall
MaxHistEntries == 3

-----------------------------------------------------------------------------
(* Strings. *)

CharAt(s, i) == SubSeq(s, i, i)

Drop(s, n) == SubSeq(s, n + 1, Len(s))

Take(s, n) == SubSeq(s, 1, n)

\* str::starts_with
StartsWith(s, p) == Len(p) <= Len(s) /\ Take(s, Len(p)) = p

\* char::is_whitespace, for the characters the model uses
IsWhitespace(c) == c = " "

\* the character class [0-9a-zA-Z] of handle_tab
IsAlnum(c) ==
    c \in {"a", "b", "c", "d", "e", "f", "h", "i", "m", "n", "o", "r", "s",
           "t", "u", "x"}

\* the character class [~./] of handle_tab
IsPathPunct(c) == c \in {"~", ".", "/"}

RECURSIVE TrimStart(_)
TrimStart(s) ==
    IF s # "" /\ IsWhitespace(Head(s)) THEN TrimStart(Tail(s)) ELSE s

RECURSIVE TrimEnd(_)
TrimEnd(s) ==
    IF s # "" /\ IsWhitespace(CharAt(s, Len(s)))
    THEN TrimEnd(Take(s, Len(s) - 1))
    ELSE s

\* str::trim
Trim(s) == TrimEnd(TrimStart(s))

\* str::split_whitespace: the maximal runs of non-whitespace characters
RECURSIVE SplitWs(_, _)
SplitWs(s, cur) ==
    IF s = ""
    THEN IF cur = "" THEN <<>> ELSE <<cur>>
    ELSE IF IsWhitespace(Head(s))
         THEN (IF cur = "" THEN <<>> ELSE <<cur>>) \o SplitWs(Tail(s), "")
         ELSE SplitWs(Tail(s), cur \o Head(s))

SplitWhitespace(s) == SplitWs(s, "")

\* str::split(pat) for a non-empty pattern: always at least one segment
RECURSIVE SplitOn(_, _, _)
SplitOn(s, pat, cur) ==
    IF s = "" THEN <<cur>>
    ELSE IF StartsWith(s, pat)
         THEN <<cur>> \o SplitOn(Drop(s, Len(pat)), pat, "")
         ELSE SplitOn(Tail(s), pat, cur \o Head(s))

Split(s, pat) == SplitOn(s, pat, "")

\* str::replace: every non-overlapping match, left to right; an empty
\* pattern matches before every character and at the end
RECURSIVE Replace(_, _, _)
Replace(s, from, to) ==
    IF from = ""
    THEN to \o (IF s = "" THEN "" ELSE Head(s) \o Replace(Tail(s), from, to))
    ELSE IF s = "" THEN ""
         ELSE IF StartsWith(s, from)
              THEN to \o Replace(Drop(s, Len(from)), from, to)
              ELSE Head(s) \o Replace(Tail(s), from, to)

\* Regex::replace_all(s, "") for a character class: the other characters
RECURSIVE RemoveAlnum(_)
RemoveAlnum(s) ==
    IF s = "" THEN ""
    ELSE (IF IsAlnum(Head(s)) THEN "" ELSE Head(s)) \o RemoveAlnum(Tail(s))

RECURSIVE RemovePathPunct(_)
RemovePathPunct(s) ==
    IF s = "" THEN ""
    ELSE (IF IsPathPunct(Head(s)) THEN "" ELSE Head(s))
         \o RemovePathPunct(Tail(s))

Last(seq) == seq[Len(seq)]

-----------------------------------------------------------------------------
(* The file system and the environment the shell runs in.  A directory is   *)
(* the sequence of names leading to it from the root.                       *)

Entry(n, d, x) == [name |-> n, is_dir |-> d, exec |-> x]

\* DirEntry list of fs::read_dir for each directory of the model
Ls(dir) ==
    CASE dir = <<>> ->
            {Entry("bin", TRUE, FALSE), Entry("d", TRUE, FALSE),
             Entry("usr", TRUE, FALSE)}
      [] dir = <<"bin">> ->
            {Entry("a", FALSE, TRUE), Entry("f", FALSE, FALSE)}
      [] dir = <<"usr">> -> {Entry("bin", TRUE, FALSE)}
      [] dir = <<"usr", "bin">> -> {Entry("b", FALSE, TRUE)}
      [] dir = <<"d">> -> {Entry("b", TRUE, FALSE), Entry("bb", FALSE, FALSE)}
      [] dir = <<"d", "b">> -> {Entry("bn", FALSE, FALSE)}
      [] OTHER -> {}

\* the directories the shell may be started in
StartDirs == {<<"d">>, <<"d", "b">>}

\* env::var("USER")
User == "u"

Node(p, d, x) == [ok |-> TRUE, path |-> p, is_dir |-> d, exec |-> x]

NoNode == [ok |-> FALSE, path |-> <<>>, is_dir |-> FALSE, exec |-> FALSE]

Parent(dir) == IF dir = <<>> THEN <<>> ELSE SubSeq(dir, 1, Len(dir) - 1)

\* path resolution of the operating system, one component at a time
RECURSIVE Walk(_, _)
Walk(cur, comps) ==
    IF comps = <<>> \/ ~cur.ok THEN cur
    ELSE IF ~cur.is_dir THEN NoNode
    ELSE LET c == Head(comps) IN
         IF c = "" \/ c = "." THEN Walk(cur, Tail(comps))
         ELSE IF c = ".." THEN Walk(Node(Parent(cur.path), TRUE, FALSE), Tail(comps))
         ELSE IF \E e \in Ls(cur.path) : e.name = c
              THEN LET e == CHOOSE e \in Ls(cur.path) : e.name = c
                   IN  Walk(Node(Append(cur.path, c), e.is_dir, e.exec), Tail(comps))
              ELSE NoNode

\* the file or directory a path names, seen from working directory wd
Lookup(path, wd) ==
    IF path = "" THEN NoNode
    ELSE Walk(Node(IF Head(path) = "/" THEN <<>> ELSE wd, TRUE, FALSE),
              Split(path, "/"))

\* fs::read_dir(path): Ok(entries) or Err
ReadDirOk(path, wd) == Lookup(path, wd).ok /\ Lookup(path, wd).is_dir

ReadDir(path, wd) == Ls(Lookup(path, wd).path)

\* Path::exists
Exists(path, wd) == Lookup(path, wd).ok

\* Command::spawn succeeds on an executable regular file
CanSpawn(path, wd) ==
    LET n == Lookup(path, wd) IN n.ok /\ ~n.is_dir /\ n.exec

-----------------------------------------------------------------------------
(* The line editor: Shell::collect_input and the handlers it calls. *)

\* the characters typed when exercising history and execution
KeyChars == {"a", " "}

\* the characters typed when exercising completion
TabChars == {"b", " ", ".", "/"}

\* what the fallible terminal calls of one handler do
TermOutcomes == {"ok", "disable_fail", "size_fail", "enable_fail"}

\* terminal::enable_raw_mode, on the raw-mode flag
enable_raw_mode(r) == TRUE

\* a disable_raw_mode that leaves the terminal as it was
disable_raw_mode_noop(r) == r

\* terminal::disable_raw_mode, on the raw-mode flag
disable_raw_mode(r) == FALSE

\* a handle_char_input that inserts at the front of the buffer
handle_char_input_front(inp, c) == c \o inp

\* a clear that leaves the text in the buffer
clear_keeps(inp) == inp

\* collect_input, Ctrl-C: self.input.clear()
clear(inp) == ""

\* Shell::handle_char_input
handle_char_input(inp, c) == inp \o c

\* Shell::handle_backspace
handle_backspace(inp) == IF inp # "" THEN Take(inp, Len(inp) - 1) ELSE inp

\* a handle_enter that tests the buffer without trimming it
handle_enter_untrimmed(hist, inp) ==
    IF inp # ""
    THEN IF Len(hist) = 0 \/ Last(hist) # inp THEN Append(hist, inp) ELSE hist
    ELSE hist

\* a handle_enter that does not compare with the last entry
handle_enter_always(hist, inp) ==
    IF Trim(inp) # "" THEN Append(hist, inp) ELSE hist

\* Shell::handle_enter
handle_enter(hist, inp) ==
    IF Trim(inp) # ""
    THEN IF Len(hist) = 0 \/ Last(hist) # inp THEN Append(hist, inp) ELSE hist
    ELSE hist

\* Shell::handle_arrow; the vector is indexed from 0
handle_arrow(hist, i, inp) == IF i < Len(hist) THEN hist[i + 1] ELSE inp

\* an up-arrow guard that lets index 0 through
UpGuardFromZero(i) == i >= 0

\* KeyCode::Up: `if index > 0`
UpGuard(i) == i > 0

\* KeyCode::Up: `index == self.command_history.len()`, then last().unwrap()
UpAtEnd(hist, i) == i = Len(hist)

\* KeyCode::Up: whether the live buffer is pushed as a staging entry
UpPushes(hist, i, inp) == UpAtEnd(hist, i) /\ Last(hist) # inp

\* a down-arrow guard that lets the cursor pass the end
DownGuardPastEnd(hist, i) == i <= Len(hist)

\* KeyCode::Down: `if index < self.command_history.len()`
DownGuard(hist, i) == i < Len(hist)

\* handle_tab: the last whitespace-delimited token of the buffer
TabToken(inp) ==
    LET t == SplitWhitespace(inp) IN IF t = <<>> THEN "" ELSE Last(t)

\* handle_tab: `~` replaced by the home directory
TabExpand(tok) ==
    IF StartsWith(tok, "~") THEN Replace(tok, "~", "/home/" \o User) ELSE tok

\* handle_tab: `searched_file`
SearchedFile(inp) == RemovePathPunct(TabExpand(TabToken(inp)))

\* handle_tab: the directory handed to fs::read_dir
TabDir(inp) == RemoveAlnum(TabExpand(TabToken(inp)))

\* handle_tab: `matching_file_names`
MatchingFileNames(inp, wd) ==
    {e.name : e \in {x \in ReadDir(TabDir(inp), wd) :
                        \/ Len(SearchedFile(inp)) = 0
                        \/ StartsWith(x.name, SearchedFile(inp))}}

\* a handle_tab that rewrites the buffer whenever anything matches
handle_tab_first_match(inp, wd) ==
    LET m == MatchingFileNames(inp, wd) IN
    Replace(inp, SearchedFile(inp),
            IF m = {} THEN "" ELSE CHOOSE n \in m : TRUE)

\* handle_tab: the buffer it leaves when the directory was listed
handle_tab(inp, wd) ==
    LET m == MatchingFileNames(inp, wd) IN
    IF Cardinality(m) > 1 THEN inp
    ELSE Replace(inp, SearchedFile(inp),
                 IF m = {} THEN "" ELSE CHOOSE n \in m : TRUE)

Init ==
    /\ command_history = <<>>
    /\ input = ""
    /\ index = 0
    /\ raw = FALSE
    /\ pc = "init"
    /\ cwd \in StartDirs
    /\ commands = <<>>
    /\ previous_command = 0
    /\ procs = <<>>
    /\ result = "none"
    /\ last_key = "none"
    /\ keys = <<>>
    /\ submitted = ""

\* init: input.clear(), then collect_input up to its loop; procs and result
\* describe the pipeline of the line submitted last and are forgotten here
BeginCycle ==
    /\ pc = "init"
    /\ input' = ""
    /\ raw' = enable_raw_mode(raw)
    /\ index' = Len(command_history)
    /\ pc' = "editing"
    /\ procs' = <<>>
    /\ result' = "none"
    /\ last_key' = "none"
    /\ keys' = <<>>
    /\ UNCHANGED <<command_history, cwd, commands, previous_command,
                   submitted>>

\* init: input.clear(), then enable_raw_mode()? fails and init continues
BeginCycleFail ==
    /\ pc = "init"
    /\ input' = ""
    /\ last_key' = "none"
    /\ UNCHANGED <<command_history, index, raw, pc, cwd, commands,
                   previous_command, procs, result, keys, submitted>>

\* event::read()? fails: collect_input returns Err, init continues
ReadFail ==
    /\ pc = "editing"
    /\ pc' = "init"
    /\ last_key' = "read_err"
    /\ UNCHANGED <<command_history, input, index, raw, cwd, commands,
                   previous_command, procs, result, keys, submitted>>

\* Ctrl-C
KeyCtrlC ==
    /\ pc = "editing"
    /\ input' = clear(input)
    /\ last_key' = "ctrlc"
    /\ UNCHANGED <<command_history, index, raw, pc, cwd, commands,
                   previous_command, procs, result, keys, submitted>>

\* KeyCode::Char(c), without the log of keys
CharInput(c) ==
    /\ pc = "editing"
    /\ input' = handle_char_input(input, c)
    /\ last_key' = "char"
    /\ UNCHANGED <<command_history, index, raw, pc, cwd, commands,
                   previous_command, procs, result, submitted>>

\* KeyCode::Backspace, without the log of keys
BackspaceInput ==
    /\ pc = "editing"
    /\ input' = handle_backspace(input)
    /\ last_key' = "backspace"
    /\ UNCHANGED <<command_history, index, raw, pc, cwd, commands,
                   previous_command, procs, result, submitted>>

KeyChar(c) == Len(input) < MaxLen /\ CharInput(c) /\ UNCHANGED keys

KeyBackspace == BackspaceInput /\ UNCHANGED keys

\* KeyCode::Enter
Enter ==
    /\ pc = "editing"
    /\ raw' = disable_raw_mode(raw)
    /\ command_history' = handle_enter(command_history, input)
    /\ pc' = "collected"
    /\ last_key' = "enter"
    /\ submitted' = IF Trim(input) # "" THEN input ELSE submitted
    /\ UNCHANGED <<input, index, cwd, commands, previous_command, procs,
                   result, keys>>

\* KeyCode::Enter while the store holds at most MaxHist entries
KeyEnter == Enter /\ Len(command_history') <= MaxHist

\* KeyCode::Enter when disable_raw_mode()? fails
KeyEnterFail ==
    /\ pc = "editing"
    /\ pc' = "init"
    /\ last_key' = "enter_err"
    /\ UNCHANGED <<command_history, input, index, raw, cwd, commands,
                   previous_command, procs, result, keys, submitted>>

\* KeyCode::Up
Up ==
    /\ pc = "editing"
    /\ last_key' = "up"
    /\ IF UpGuard(index)
       THEN IF \/ UpAtEnd(command_history, index) /\ command_history = <<>>
               \/ index = 0
            THEN \* last().unwrap() on an empty vector, or `index -= 1` at 0
                 /\ pc' = "panic"
                 /\ UNCHANGED <<command_history, input, index>>
            ELSE LET pushed == UpPushes(command_history, index, input)
                     hist == IF pushed THEN Append(command_history, input)
                             ELSE command_history
                 IN  /\ command_history' = hist
                     /\ index' = index - 1
                     /\ input' = handle_arrow(hist, index - 1, input)
                     /\ pc' = pc
       ELSE UNCHANGED <<command_history, input, index, pc>>
    /\ UNCHANGED <<raw, cwd, commands, previous_command, procs, result, keys,
                   submitted>>

\* KeyCode::Up while the store holds at most MaxHist entries
KeyUp == Up /\ Len(command_history') <= MaxHist

\* KeyCode::Down
KeyDown ==
    /\ pc = "editing"
    /\ last_key' = "down"
    /\ IF DownGuard(command_history, index)
       THEN /\ index' = index + 1
            /\ input' = handle_arrow(command_history, index + 1, input)
       ELSE UNCHANGED <<input, index>>
    /\ UNCHANGED <<command_history, raw, pc, cwd, commands, previous_command,
                   procs, result, keys, submitted>>

\* KeyCode::Tab: handle_tab with the terminal behaving as t
KeyTab(t) ==
    /\ pc = "editing"
    /\ IF t = "disable_fail"
       THEN /\ pc' = "init"
            /\ last_key' = "tab_err"
            /\ UNCHANGED <<input, raw>>
       ELSE IF ~ReadDirOk(TabDir(input), cwd) \/ t = "size_fail"
       THEN /\ pc' = "init"
            /\ last_key' = "tab_err"
            /\ raw' = disable_raw_mode(raw)
            /\ UNCHANGED input
       ELSE /\ input' = handle_tab(input, cwd)
            /\ IF t = "enable_fail"
               THEN /\ pc' = "init"
                    /\ last_key' = "tab_err"
                    /\ raw' = disable_raw_mode(raw)
               ELSE /\ pc' = pc
                    /\ last_key' = "tab"
                    /\ raw' = enable_raw_mode(disable_raw_mode(raw))
    /\ UNCHANGED <<command_history, index, cwd, commands, previous_command,
                   procs, result, keys, submitted>>

-----------------------------------------------------------------------------
(* The pipeline executor: Shell::process_input and Shell::execute_command. *)

RECURSIVE Contains(_, _)
Contains(s, c) == s # "" /\ (Head(s) = c \/ Contains(Tail(s), c))

\* resolve_command: `binary_locations`
BinaryLocations == <<"/bin", "/usr/bin">>

\* Path::new(location).join(command)
PathJoin(location, command) == location \o "/" \o command

\* Shell::resolve_command: [ok, path]
resolve_command(command, wd) ==
    IF Contains(command, "/") THEN [ok |-> TRUE, path |-> command]
    ELSE LET found == {i \in 1..Len(BinaryLocations) :
                          Exists(PathJoin(BinaryLocations[i], command), wd)}
         IN  IF found = {} THEN [ok |-> FALSE, path |-> ""]
             ELSE [ok |-> TRUE,
                   path |-> PathJoin(BinaryLocations[
                                CHOOSE i \in found : \A j \in found : i <= j],
                                command)]

\* a get_stdin that never connects a stage to the previous one
get_stdin_inherit(prev, ps) == 0

\* Shell::get_stdin: 0 is Stdio::inherit(), k > 0 is the read end of the
\* pipe that child k writes its output to
get_stdin(prev, ps) ==
    IF prev # 0 /\ ps[prev].stdout = "piped" THEN prev ELSE 0

\* Shell::get_stdout
get_stdout(has_more_commands) ==
    IF has_more_commands THEN "piped" ELSE "inherit"

\* Shell::change_directory: the directory env::set_current_dir is given
CdTarget(args) == IF args = <<>> THEN "/" ELSE args[1]

\* a change_directory that swallows the error of env::set_current_dir
change_directory_silent(args, wd) ==
    IF ReadDirOk(CdTarget(args), wd)
    THEN [ok |-> TRUE, cwd |-> Lookup(CdTarget(args), wd).path, err |-> "none"]
    ELSE [ok |-> TRUE, cwd |-> wd, err |-> "none"]

\* Shell::change_directory: [ok, cwd, err], cwd being the working directory
\* after env::set_current_dir(&root)?, err the kind of its io::Error
change_directory(args, wd) ==
    IF ReadDirOk(CdTarget(args), wd)
    THEN [ok |-> TRUE, cwd |-> Lookup(CdTarget(args), wd).path, err |-> "none"]
    ELSE [ok |-> FALSE, cwd |-> wd,
          err |-> IF Exists(CdTarget(args), wd) THEN "NotADirectory"
                  ELSE "NotFound"]

\* init: the `exit` test, then process_input up to its loop
Dispatch ==
    /\ pc = "collected"
    /\ IF Trim(input) = "exit"
       THEN /\ pc' = "exited"
            /\ UNCHANGED <<commands, previous_command, procs, result>>
       ELSE /\ pc' = "process"
            /\ commands' = Split(input, " | ")
            /\ previous_command' = 0
            /\ procs' = <<>>
            /\ result' = "none"
    /\ UNCHANGED <<command_history, input, index, raw, cwd, last_key, keys,
                   submitted>>

\* process_input returns Err(e): init reports it and loops
Fail(e) ==
    /\ pc' = "init"
    /\ result' = e
    /\ commands' = <<>>
    /\ previous_command' = 0

\* one iteration of the loop of process_input: execute_command on the next
\* segment
ExecuteCommand ==
    /\ pc = "process"
    /\ commands # <<>>
    /\ LET command_line == Trim(Head(commands))
           has_more_commands == Len(commands) > 1
           parts == SplitWhitespace(command_line)
           command == parts[1]
           args == Tail(parts)
           resolved == resolve_command(command, cwd)
           child == [cmd |-> resolved.path, args |-> args,
                     stdin |-> get_stdin(previous_command, procs),
                     stdout |-> get_stdout(has_more_commands),
                     exited |-> FALSE, awaited |-> FALSE, raw |-> raw]
           Continue(prev) ==
               /\ pc' = pc
               /\ result' = result
               /\ commands' = Tail(commands)
               /\ previous_command' = prev
       IN  IF command_line = ""
           THEN Continue(0) /\ UNCHANGED <<cwd, procs>>
           ELSE IF command = "cd"
           THEN LET cd == change_directory(args, cwd)
                IN  /\ cwd' = cd.cwd
                    /\ IF cd.ok THEN Continue(0) ELSE Fail(cd.err)
                    /\ UNCHANGED procs
           ELSE IF command \in {"exit", "exit;"}
           THEN /\ pc' = "exited"
                /\ UNCHANGED <<cwd, procs, result, commands, previous_command>>
           ELSE IF command = "about"
           THEN Continue(0) /\ UNCHANGED <<cwd, procs>>
           ELSE IF ~resolved.ok
           THEN Fail("CommandNotFound") /\ UNCHANGED <<cwd, procs>>
           ELSE IF ~CanSpawn(resolved.path, cwd)
           THEN Fail("SpawnFailure") /\ UNCHANGED <<cwd, procs>>
           ELSE /\ procs' = Append(procs, child)
                /\ Continue(Len(procs) + 1)
                /\ UNCHANGED cwd
    /\ UNCHANGED <<command_history, input, index, raw, last_key, keys,
                   submitted>>

\* process_input after its loop: final_command.wait(), then Ok(())
ProcessReturn ==
    /\ pc = "process"
    /\ commands = <<>>
    /\ IF previous_command = 0
       THEN UNCHANGED procs
       ELSE /\ procs[previous_command].exited
            /\ procs' = [procs EXCEPT ![previous_command].awaited = TRUE]
    /\ pc' = "init"
    /\ result' = "Ok"
    /\ previous_command' = 0
    /\ UNCHANGED <<command_history, input, index, raw, cwd, commands,
                   last_key, keys, submitted>>

\* a spawned child process terminates
ChildExit(p) ==
    /\ p \in 1..Len(procs)
    /\ ~procs[p].exited
    /\ procs' = [procs EXCEPT ![p].exited = TRUE]
    /\ UNCHANGED <<command_history, input, index, raw, pc, cwd, commands,
                   previous_command, result, last_key, keys, submitted>>

-----------------------------------------------------------------------------
(* The shell, driven by key events. *)

Next ==
    \/ BeginCycle
    \/ BeginCycleFail
    \/ ReadFail
    \/ KeyCtrlC
    \/ \E c \in KeyChars : KeyChar(c)
    \/ KeyBackspace
    \/ KeyEnter
    \/ KeyEnterFail
    \/ KeyUp
    \/ KeyDown
    \/ \E t \in TermOutcomes : KeyTab(t)
    \/ Dispatch
    \/ ExecuteCommand
    \/ ProcessReturn
    \/ \E p \in 1..MaxStages : ChildExit(p)

Spec == Init /\ [][Next]_vars

-----------------------------------------------------------------------------
(* One input cycle of character and backspace events, with the events      *)
(* logged in keys.                                                          *)

\* the entry of keys that stands for a backspace event
BS == "BS"

LogChar(c) ==
    /\ Len(keys) < MaxKeys
    /\ CharInput(c)
    /\ keys' = Append(keys, c)

LogBackspace ==
    /\ Len(keys) < MaxKeys
    /\ BackspaceInput
    /\ keys' = Append(keys, BS)

NextEdit ==
    \/ BeginCycle
    \/ \E c \in KeyChars : LogChar(c)
    \/ LogBackspace

SpecEdit == Init /\ [][NextEdit]_vars

-----------------------------------------------------------------------------
(* Input cycles of character, backspace, cancel and completion events over *)
(* the characters of path names.                                            *)

TabChar(c) == Len(input) < MaxTabLen /\ CharInput(c) /\ UNCHANGED keys

\* a completion trigger on a buffer of at most MaxTabLen characters
TabKey(t) == Len(input) <= MaxTabLen /\ KeyTab(t)

NextTab ==
    \/ BeginCycle
    \/ \E c \in TabChars : TabChar(c)
    \/ KeyBackspace
    \/ KeyCtrlC
    \/ \E t \in TermOutcomes : TabKey(t)

SpecTab == Init /\ [][NextTab]_vars

-----------------------------------------------------------------------------
(* process_input on the lines made of up to MaxStages segments.            *)

\* the texts between the " | " delimiters of the submitted lines
PipeSegments ==
    {"a", "b x", "m", "f", "", "cd ..", "cd m", "about", "exit", "/bin/a"}

RECURSIVE JoinPipe(_)
JoinPipe(segs) ==
    IF Len(segs) = 1 THEN segs[1]
    ELSE segs[1] \o " | " \o JoinPipe(Tail(segs))

PipeLines ==
    {JoinPipe(segs) :
        segs \in UNION {[1..n -> PipeSegments] : n \in 1..MaxStages}}

\* the shell right after collect_input returned Ok(()) with a line in input
InitPipe ==
    /\ input \in PipeLines
    /\ command_history = handle_enter(<<>>, input)
    /\ index = 0
    /\ raw = FALSE
    /\ pc = "collected"
    /\ cwd \in StartDirs
    /\ commands = <<>>
    /\ previous_command = 0
    /\ procs = <<>>
    /\ result = "none"
    /\ last_key = "enter"
    /\ keys = <<>>
    /\ submitted = (IF Trim(input) # "" THEN input ELSE "")

NextPipe ==
    \/ Dispatch
    \/ ExecuteCommand
    \/ ProcessReturn
    \/ \E p \in 1..MaxStages : ChildExit(p)

SpecPipe == InitPipe /\ [][NextPipe]_vars

-----------------------------------------------------------------------------
(* Input cycles of short lines that are submitted, executed and recalled.  *)

HistChar(c) == Len(input) < MaxHistLine /\ CharInput(c) /\ UNCHANGED keys

\* KeyCode::Enter while the store holds at most MaxHistEntries entries
HistEnter == Enter /\ Len(command_history') <= MaxHistEntries

\* KeyCode::Up while the store holds at most MaxHistEntries entries
HistUp == Up /\ Len(command_history') <= MaxHistEntries

NextHist ==
    \/ BeginCycle
    \/ \E c \in KeyChars : HistChar(c)
    \/ KeyBackspace
    \/ KeyCtrlC
    \/ HistEnter
    \/ HistUp
    \/ KeyDown
    \/ Dispatch
    \/ ExecuteCommand
    \/ ProcessReturn
    \/ \E p \in 1..MaxStages : ChildExit(p)

SpecHist == Init /\ [][NextHist]_vars

-----------------------------------------------------------------------------
(* Properties of the history store and the history cursor. *)

\* C1: in every reachable state no two adjacent entries of the history store
\* are equal, whether they were appended on Enter or pushed on Up-arrow.
NoAdjacentDuplicates ==
    \A i \in 1..(Len(command_history) - 1) :
        command_history[i] # command_history[i + 1]

\* an Up-arrow has just pushed a blank buffer behind a submitted line
StagedAfterSubmitted ==
    /\ pc = "editing"
    /\ last_key = "up"
    /\ Len(command_history) = 2
    /\ Trim(command_history[1]) # ""
    /\ Trim(command_history[2]) = ""

\* C10: in every state of an input cycle the history cursor is within
\* 0 .. len(history store).
CursorInRange ==
    pc = "editing" => (0 <= index /\ index <= Len(command_history))

\* a Down-arrow has brought the cursor back to the end of a non-empty store
CursorBackAtEnd ==
    /\ pc = "editing"
    /\ last_key = "down"
    /\ Len(command_history) > 0
    /\ index = Len(command_history)

\* C9: with an empty history store an Up-arrow or a Down-arrow changes
\* neither the buffer, the store nor the cursor, and does not panic on a read
\* of the last entry.
EmptyHistoryArrowsNoOp ==
    [][(/\ pc = "editing"
        /\ command_history = <<>>
        /\ last_key' \in {"up", "down"})
       => (/\ input' = input
           /\ command_history' = <<>>
           /\ index' = index
           /\ pc' = "editing")]_vars

\* an arrow key was pressed on a non-empty buffer while the store is empty
ArrowOnEmptyHistory ==
    /\ pc = "editing"
    /\ command_history = <<>>
    /\ last_key \in {"up", "down"}
    /\ input # ""

-----------------------------------------------------------------------------
(* Properties of the terminal mode. *)

\* C4: raw mode is off in every state in which process_input runs, and was
\* off when each child process was spawned.
RawOffWhileExecuting ==
    /\ pc = "process" => ~raw
    /\ \A p \in 1..Len(procs) : ~procs[p].raw

\* process_input runs with a child spawned
ExecutingWithChild ==
    /\ pc = "process"
    /\ Len(procs) = 1
    /\ ~raw

-----------------------------------------------------------------------------
(* Properties of character and backspace editing. *)

\* the stack-edit result of a sequence of events: push for a character,
\* pop-if-non-empty for a backspace
RECURSIVE StackEdit(_)
StackEdit(ks) ==
    IF ks = <<>> THEN ""
    ELSE LET before == StackEdit(SubSeq(ks, 1, Len(ks) - 1))
             k == ks[Len(ks)]
         IN  IF k = BS
             THEN IF before = "" THEN "" ELSE SubSeq(before, 1, Len(before) - 1)
             ELSE before \o k

\* C8: after any sequence of character and backspace events of one input
\* cycle the buffer is the stack-edit result of the sequence.
BufferIsStackEdit ==
    pc = "editing" => input = StackEdit(keys)

\* a sequence that starts with a backspace on the empty buffer and ends with
\* a backspace that removes a character
BackspacesAtBothEnds ==
    /\ pc = "editing"
    /\ Len(keys) >= 4
    /\ keys[1] = BS
    /\ keys[Len(keys)] = BS
    /\ input # ""

-----------------------------------------------------------------------------
(* Properties of completion. *)

\* the completion trigger of this step lists its directory
TabLists == ReadDirOk(TabDir(input), cwd)

\* this step handles a completion trigger
TabStep == pc = "editing" /\ last_key' \in {"tab", "tab_err"}

\* this step handles a completion trigger and handle_tab returns Ok(())
TabDone == pc = "editing" /\ last_key' = "tab"

\* the buffer before its last whitespace-delimited token
RECURSIVE BeforeToken(_)
BeforeToken(s) ==
    IF s = "" \/ IsWhitespace(CharAt(s, Len(s))) THEN s
    ELSE BeforeToken(Take(s, Len(s) - 1))

EndsWith(s, e) == Len(e) <= Len(s) /\ Drop(s, Len(s) - Len(e)) = e

\* the name a single match completes to: a separator follows a directory
Completed(inp, wd) ==
    LET e == CHOOSE x \in ReadDir(TabDir(inp), wd) :
                 x.name \in MatchingFileNames(inp, wd)
    IN  e.name \o (IF e.is_dir THEN "/" ELSE "")

\* C5: a completion trigger with exactly one match rewrites the trailing
\* token to the matched name, followed by a separator iff it is a directory,
\* and leaves the line before that token unchanged.  Stated by what every
\* reading of "rewritten" implies: the text before the token stays at the
\* front of the buffer, and the buffer ends with the completed name.
SingleMatchRewritesTrailingToken ==
    [][(/\ TabDone
        /\ TabLists
        /\ Cardinality(MatchingFileNames(input, cwd)) = 1)
       => (/\ StartsWith(input', BeforeToken(TrimEnd(input)))
           /\ EndsWith(TrimEnd(input'), Completed(input, cwd)))]_vars

\* C6: a completion trigger with two or more matches leaves the buffer, the
\* history store and the cursor as they were.
MultiMatchLeavesBuffer ==
    [][(/\ TabStep
        /\ TabLists
        /\ Cardinality(MatchingFileNames(input, cwd)) >= 2)
       => (/\ input' = input
           /\ command_history' = command_history
           /\ index' = index)]_vars

\* a completion trigger was handled on a non-empty prefix with several matches
TabWithSeveralMatches ==
    /\ pc = "editing"
    /\ last_key = "tab"
    /\ TabLists
    /\ SearchedFile(input) # ""
    /\ Cardinality(MatchingFileNames(input, cwd)) >= 2

\* C7: a completion trigger with no match in a listable directory leaves the
\* buffer as it was.
ZeroMatchLeavesBuffer ==
    [][(/\ TabDone
        /\ TabLists
        /\ MatchingFileNames(input, cwd) = {})
       => input' = input]_vars

-----------------------------------------------------------------------------
(* Properties of pipelines. *)

\* the command name of a segment
CommandOf(seg) == SplitWhitespace(Trim(seg))[1]

\* a segment that names an external executable the shell can resolve
External(seg) ==
    /\ Trim(seg) # ""
    /\ CommandOf(seg) \notin {"cd", "exit", "exit;", "about"}
    /\ resolve_command(CommandOf(seg), cwd).ok
    /\ CanSpawn(resolve_command(CommandOf(seg), cwd).path, cwd)

\* the submitted line is a pipeline of external executables only
AllExternal ==
    \A i \in 1..Len(Split(input, " | ")) : External(Split(input, " | ")[i])

\* C2: a line of n resolvable external stages spawns its n processes in
\* stage order, the first reading the shell's input, each later one the pipe
\* of the stage before it, the last writing to the shell's output, and
\* process_input returns only after the last one has exited.
PipelineSpawnsAndWires ==
    (pc \in {"process", "init"} /\ AllExternal) =>
        LET stages == Split(input, " | ")
            n == Len(stages)
        IN  /\ result \in {"none", "Ok"}
            /\ pc = "process" => Len(procs) = n - Len(commands)
            /\ \A k \in 1..Len(procs) :
                  /\ procs[k].cmd = resolve_command(CommandOf(stages[k]), cwd).path
                  /\ procs[k].args = Tail(SplitWhitespace(Trim(stages[k])))
                  /\ procs[k].stdin = (IF k = 1 THEN 0 ELSE k - 1)
                  /\ procs[k].stdout = (IF k = n THEN "inherit" ELSE "piped")
            /\ result = "Ok" =>
                  /\ Len(procs) = n
                  /\ procs[n].exited
                  /\ procs[n].awaited

\* process_input has returned from a three-stage pipeline whose first stage
\* is still running
ThreeStagesReturned ==
    /\ pc = "init"
    /\ result = "Ok"
    /\ AllExternal
    /\ Len(procs) = 3
    /\ ~procs[1].exited

\* C3: when a stage's command cannot be resolved the pipeline fails with
\* CommandNotFound and none of its stages has been spawned.
UnresolvedSpawnsNothing ==
    result = "CommandNotFound" => procs = <<>>

-----------------------------------------------------------------------------
(* Properties of the built-in cd and of failing pipelines. *)

\* the segment execute_command is about to be given is `cd` with a path
\* that names nothing
CdToMissingPath ==
    /\ pc = "process"
    /\ commands # <<>>
    /\ Trim(Head(commands)) # ""
    /\ CommandOf(Head(commands)) = "cd"
    /\ ~Exists(CdTarget(Tail(SplitWhitespace(Trim(Head(commands))))), cwd)

\* C11: the step of execute_command on `cd` with a path that does not exist
\* (the step that takes the segment off commands) leaves the working
\* directory as it was, makes process_input return a not-found error,
\* spawns no process, and leaves the shell at the top of its loop (ready
\* for the next prompt) rather than exited.
CdMissingKeepsCwd ==
    [][(CdToMissingPath /\ commands' # commands) =>
          /\ cwd' = cwd
          /\ result' = "NotFound"
          /\ procs' = procs
          /\ pc' = "init"]_vars

\* the line `cd m` was submitted and failed with nothing spawned
CdMissingReported ==
    /\ input = "cd m"
    /\ pc = "init"
    /\ result = "NotFound"
    /\ procs = <<>>
    /\ cwd \in StartDirs

-----------------------------------------------------------------------------
(* Properties of recall and of the lines the history store keeps. *)

\* C12: when Enter finalizes a non-blank line equal to the line finalized by
\* the preceding non-blank submission, the history store is left as it is
\* (it gains no further copy of the line), however the buffer came to hold
\* the line.
ResubmissionAddsNoCopy ==
    [][(/\ pc = "editing"
        /\ last_key' = "enter"
        /\ Trim(input) # ""
        /\ input = submitted) => command_history' = command_history]_vars

\* C13: when process_input has returned the error of a stage that could not
\* be resolved or spawned, every stage spawned before it has been awaited.
FailedPipelineAwaitsSpawned ==
    (pc = "init" /\ result \in {"CommandNotFound", "SpawnFailure"}) =>
        \A p \in 1..Len(procs) : procs[p].awaited

\* an input cycle has begun and no key event has been handled yet
CycleStart == pc = "editing" /\ last_key = "none"

\* C14: at the start of every input cycle each entry of the history store
\* has non-blank content, as a line finalized by Enter with non-blank
\* content has; no staging entry of an earlier cycle (the empty in-progress
\* buffer included) is still in the store.
HistoryHoldsSubmittedLines ==
    CycleStart =>
        \A i \in 1..Len(command_history) : Trim(command_history[i]) # ""

\* C15: an up-arrow with the cursor above 0 appends the live buffer to the
\* history store iff the cursor is at the end and the last entry differs
\* from the buffer, then decrements the cursor and loads the entry it now
\* points at; when it is the first key event of a cycle it thereby recalls
\* the line submitted last, with the in-progress text as the last entry.
\* An up-arrow with the cursor at 0 changes nothing.
UpArrowRecallsSubmitted ==
    [][(pc = "editing" /\ last_key' = "up") =>
          IF index > 0
          THEN /\ command_history' =
                     IF /\ index = Len(command_history)
                        /\ command_history[Len(command_history)] # input
                     THEN command_history \o <<input>>
                     ELSE command_history
               /\ index' = index - 1
               /\ input' = command_history'[index' + 1]
               /\ CycleStart =>
                     /\ input' = submitted
                     /\ command_history'[Len(command_history')] = input
          ELSE UNCHANGED <<command_history, index, input>>]_vars

\* the text staged when upward recall began: the Up arm either pushed the
\* live buffer as the last entry or found it equal to the last entry
Staged == command_history[Len(command_history)]

\* C16: a down-arrow with the cursor below the end increments the cursor;
\* if the cursor then is at the end the buffer is empty or the staged
\* in-progress text, otherwise it is the entry the cursor points at. A
\* down-arrow with the cursor at the end changes nothing.
DownArrowRestoresStaged ==
    [][(pc = "editing" /\ last_key' = "down") =>
          IF index < Len(command_history)
          THEN /\ index' = index + 1
               /\ command_history' = command_history
               /\ IF index' = Len(command_history)
                  THEN input' = "" \/ input' = Staged
                  ELSE input' = command_history[index' + 1]
          ELSE UNCHANGED <<command_history, index, input>>]_vars

-----------------------------------------------------------------------------
(* Properties of the Enter and Ctrl-C key events. *)

\* C17: Enter appends the buffer to the history store iff the trimmed
\* buffer is non-empty and the store is empty or ends with another line,
\* and otherwise leaves the store as it is; either way collect_input
\* returns with the buffer untouched, and process_input splits exactly that
\* buffer into its segments.
EnterFinalizesBuffer ==
    [][/\ (pc = "editing" /\ last_key' = "enter") =>
             /\ command_history' =
                   IF /\ Trim(input) # ""
                      /\ \/ command_history = <<>>
                         \/ command_history[Len(command_history)] # input
                   THEN command_history \o <<input>>
                   ELSE command_history
             /\ pc' = "collected"
             /\ input' = input
       /\ (pc = "collected" /\ pc' = "process") =>
             /\ input' = input
             /\ JoinPipe(commands') = input]_vars

\* a line appended as the second entry of the store is being executed
EnterAppendedAndExecutes ==
    /\ pc = "process"
    /\ last_key = "enter"
    /\ Len(command_history) = 2
    /\ command_history[2] = input
    /\ commands = <<input>>

\* C18: a Ctrl-C during line editing empties the buffer and changes nothing
\* else: the history store, the cursor, the terminal mode, the working
\* directory and the pipeline state stay as they were, and the shell is
\* still in the same input cycle, reading key events.
CancelOnlyClearsBuffer ==
    [][(pc = "editing" /\ last_key' = "ctrlc") =>
          /\ input' = ""
          /\ pc' = "editing"
          /\ UNCHANGED <<command_history, index, raw, cwd, commands,
                         previous_command, procs, result, submitted>>]_vars

\* Ctrl-C was pressed while an earlier entry of the store was recalled
CancelledWhileRecalling ==
    /\ pc = "editing"
    /\ last_key = "ctrlc"
    /\ input = ""
    /\ index < Len(command_history)
    /\ command_history[index + 1] # ""

-----------------------------------------------------------------------------
(* Properties of completion errors and of empty pipeline segments. *)

\* C19: when the handling of a completion request ends in an error, the
\* shell is still in the input cycle it was in, reading key events, with
\* the buffer and the cursor it had before the request.
CompletionErrorKeepsCycle ==
    [][(pc = "editing" /\ last_key' = "tab_err") =>
          /\ pc' = "editing"
          /\ input' = input
          /\ index' = index]_vars

\* a segment execute_command does not skip
NonEmptySegment(seg) == Trim(seg) # ""

\* the submitted line has an empty segment, and its other segments, at
\* least one, name external executables
GapBetweenExternals ==
    LET stages == Split(input, " | ")
    IN  /\ \E i \in 1..Len(stages) : ~NonEmptySegment(stages[i])
        /\ \E i \in 1..Len(stages) : NonEmptySegment(stages[i])
        /\ \A i \in 1..Len(stages) :
              NonEmptySegment(stages[i]) => External(stages[i])

\* C20: once process_input has returned from a line with an empty segment,
\* the processes it spawned are those of the line without the empty
\* segments, wired in the same way (each stage after the first reads the
\* pipe of the stage spawned before it, the last one writes to the shell's
\* output), and the last one has been awaited.
EmptySegmentIsSkipped ==
    (pc = "init" /\ result # "none" /\ GapBetweenExternals) =>
        LET stages == SelectSeq(Split(input, " | "), NonEmptySegment)
            n == Len(stages)
        IN  /\ result = "Ok"
            /\ Len(procs) = n
            /\ \A k \in 1..Len(procs) :
                  /\ procs[k].cmd =
                        resolve_command(CommandOf(stages[k]), cwd).path
                  /\ procs[k].stdin = (IF k = 1 THEN 0 ELSE k - 1)
                  /\ procs[k].stdout = (IF k = n THEN "inherit" ELSE "piped")
            /\ procs[n].awaited

============================================================================
